---------------------------- MODULE Spec2Model ----------------------------
(***************************************************************************)
(* Kalshi / Pinnacle NFL arbitrage scripts (src/Arbitrage).                *)
(*                                                                         *)
(* Prices and probabilities are Python floats in the source.  They are     *)
(* modelled as exact rationals [n, d] in lowest terms with d > 0; the      *)
(* pandas missing value (None / NaN) is the record with d = 0.             *)
(***************************************************************************)
EXTENDS Integers, Sequences, FiniteSets, TLC

(***************************************************************************)
(* Bounds of the model                                                     *)
(***************************************************************************)
MaxKalshiRows == 2

MaxPinnacleRows == 2

PGrid == 10

MaxPagesParam == 3

MaxEvents == 2

MaxPolls == 3

(***************************************************************************)
(* Exact rational arithmetic                                               *)
(***************************************************************************)
RECURSIVE GCD(_, _)
GCD(a, b) ==
    IF b = 0 THEN a ELSE GCD(b, a % b)

Abs(x) ==
    IF x < 0 THEN -x ELSE x

NaN ==
    [n |-> 0, d |-> 0]

IsNaN(x) ==
    x.d = 0

Norm(num, den) ==
    LET s == IF den < 0 THEN -1 ELSE 1
        g == GCD(Abs(num), Abs(den))
    IN  [n |-> (s * num) \div g, d |-> (s * den) \div g]

R(num, den) ==
    Norm(num, den)

Zero ==
    [n |-> 0, d |-> 1]

One ==
    [n |-> 1, d |-> 1]

RAdd(x, y) ==
    IF IsNaN(x) \/ IsNaN(y) THEN NaN
    ELSE LET g == GCD(x.d, y.d)
         IN  Norm(x.n * (y.d \div g) + y.n * (x.d \div g), (x.d \div g) * y.d)

RNeg(x) ==
    [n |-> -(x.n), d |-> x.d]

RSub(x, y) ==
    RAdd(x, RNeg(y))

RMul(x, y) ==
    IF IsNaN(x) \/ IsNaN(y) THEN NaN
    ELSE LET g1 == GCD(Abs(x.n), y.d)
             g2 == GCD(Abs(y.n), x.d)
         IN  Norm((x.n \div g1) * (y.n \div g2), (x.d \div g2) * (y.d \div g1))

\* x / y for y # 0; callers decide what a zero divisor does
RDiv(x, y) ==
    IF IsNaN(x) \/ IsNaN(y) THEN NaN
    ELSE RMul(x, Norm(y.d, y.n))

\* comparisons with NaN are False, as for IEEE floats
RLt(x, y) ==
    /\ ~IsNaN(x)
    /\ ~IsNaN(y)
    /\ RSub(x, y).n < 0

RLe(x, y) ==
    /\ ~IsNaN(x)
    /\ ~IsNaN(y)
    /\ RSub(x, y).n <= 0

BSeq(S, k) ==
    UNION {[1..m -> S] : m \in 0..k}

(***************************************************************************)
(* Module constants of arb_nfl_A_v2.py                                     *)
(***************************************************************************)
kalshi_fee ==
    R(3, 1000)

bankroll ==
    R(10000, 1)

fractional_kelly ==
    R(2, 10)

\* the entries of TEAM_MAP for the teams that occur in the model
TEAM_MAP ==
    [t \in {"Dallas", "Philadelphia", "New York G", "New York J"} |->
        CASE t = "Dallas"       -> "Dallas Cowboys"
          [] t = "Philadelphia" -> "Philadelphia Eagles"
          [] t = "New York G"   -> "New York Giants"
          [] t = "New York J"   -> "New York Jets"]

normalize_team(name) ==
    IF name \in DOMAIN TEAM_MAP THEN TEAM_MAP[name] ELSE name

(***************************************************************************)
(* devig and kelly_fraction                                                *)
(***************************************************************************)
\* devig with the overround taken as the product of the raw probabilities
devig_product(home_prob, away_prob) ==
    LET r == RMul(home_prob, away_prob)
    IN  IF IsNaN(r) THEN [err |-> FALSE, home |-> NaN, away |-> NaN]
        ELSE IF r.n = 0 THEN [err |-> TRUE, home |-> NaN, away |-> NaN]
        ELSE [err |-> FALSE, home |-> RDiv(home_prob, r), away |-> RDiv(away_prob, r)]

\* devig by the additive method: half of the overround off each side
devig_additive(home_prob, away_prob) ==
    LET r == RAdd(home_prob, away_prob)
        half == RDiv(RSub(r, One), R(2, 1))
    IN  IF IsNaN(r) THEN [err |-> FALSE, home |-> NaN, away |-> NaN]
        ELSE IF r.n = 0 THEN [err |-> TRUE, home |-> NaN, away |-> NaN]
        ELSE [err |-> FALSE, home |-> RSub(home_prob, half),
              away |-> RSub(away_prob, half)]

\* devig with the overround taken as the mean of the raw probabilities
devig_mean(home_prob, away_prob) ==
    LET r == RDiv(RAdd(home_prob, away_prob), R(2, 1))
    IN  IF IsNaN(r) THEN [err |-> FALSE, home |-> NaN, away |-> NaN]
        ELSE IF r.n = 0 THEN [err |-> TRUE, home |-> NaN, away |-> NaN]
        ELSE [err |-> FALSE, home |-> RDiv(home_prob, r), away |-> RDiv(away_prob, r)]

\* returns [err, home, away]; a zero sum of Python floats raises
devig(home_prob, away_prob) ==
    LET r == RAdd(home_prob, away_prob)
    IN  IF IsNaN(r) THEN [err |-> FALSE, home |-> NaN, away |-> NaN]
        ELSE IF r.n = 0 THEN [err |-> TRUE, home |-> NaN, away |-> NaN]
        ELSE [err |-> FALSE, home |-> RDiv(home_prob, r), away |-> RDiv(away_prob, r)]

\* Python max(0, x): x when x > 0, else 0
PyMax0(x) ==
    IF RLt(Zero, x) THEN x ELSE Zero

\* kelly_fraction without the clamp at zero
kelly_fraction_unclamped(pinnacle_odds, kalshi_odds, shrinkage) ==
    LET num == RSub(RMul(kalshi_odds, pinnacle_odds), One)
        den == RSub(kalshi_odds, One)
    IN  IF den.n = 0 /\ ~IsNaN(den) THEN [err |-> TRUE, val |-> NaN]
        ELSE [err |-> FALSE, val |-> RMul(shrinkage, RDiv(num, den))]

\* returns [err, val]; kalshi_odds = 1 divides by zero (ZeroDivisionError)
kelly_fraction(pinnacle_odds, kalshi_odds, shrinkage) ==
    LET num == RSub(RMul(kalshi_odds, pinnacle_odds), One)
        den == RSub(kalshi_odds, One)
    IN  IF den.n = 0 /\ ~IsNaN(den) THEN [err |-> TRUE, val |-> NaN]
        ELSE [err |-> FALSE, val |-> PyMax0(RMul(shrinkage, RDiv(num, den)))]


(***************************************************************************)
(* Inputs: what the two venues' APIs may return                            *)
(***************************************************************************)
\* one Kalshi market: the event title "<away> at <home>" split on " at ",
\* and the quoted yes_bid / yes_ask in cents (0: missing or zero quote)
KalshiMarket(away, home, bid, ask) ==
    [title |-> [away |-> away, home |-> home], yes_bid |-> bid, yes_ask |-> ask]

KalshiMarkets ==
    {KalshiMarket("Dallas", "Philadelphia", 80, 30),
     KalshiMarket("Dallas", "Philadelphia", 45, 50),
     KalshiMarket("Dallas", "Philadelphia", 0, 30),
     KalshiMarket("Dallas", "Philadelphia", 60, 70),
     KalshiMarket("Philadelphia", "Dallas", 80, 30),
     KalshiMarket("New York G", "New York J", 45, 50)}

\* one period of one Pinnacle event with its decimal money line
PinnaclePeriod(home, away, description, ml_home, ml_away) ==
    [home |-> home, away |-> away, description |-> description,
     ml_home |-> ml_home, ml_away |-> ml_away]

PinnaclePeriods ==
    {PinnaclePeriod("Philadelphia Eagles", "Dallas Cowboys", "Game", R(3, 2), R(5, 2)),
     PinnaclePeriod("Philadelphia Eagles", "Dallas Cowboys", "Game", R(5, 2), R(3, 2)),
     PinnaclePeriod("Philadelphia Eagles", "Dallas Cowboys", "Game", NaN, R(2, 1)),
     PinnaclePeriod("Philadelphia Eagles", "Dallas Cowboys", "Game", R(1, 1), R(2, 1)),
     PinnaclePeriod("Philadelphia Eagles", "Dallas Cowboys", "1st Half", R(3, 2), R(5, 2)),
     PinnaclePeriod("Dallas Cowboys", "Philadelphia Eagles", "Game", R(3, 2), R(5, 2)),
     PinnaclePeriod("New York Jets", "New York Giants", "Game",
                    R(2006, 1000), R(1994, 1000))}

(***************************************************************************)
(* The two fetchers                                                        *)
(***************************************************************************)
\* the NO ask derived from the YES ask instead of the YES bid
KalshiRowNoAskFromAsk(m) ==
    [title   |-> m.title,
     yes_bid |-> IF m.yes_bid # 0 THEN R(m.yes_bid, 100) ELSE NaN,
     yes_ask |-> IF m.yes_ask # 0 THEN R(m.yes_ask, 100) ELSE NaN,
     no_bid  |-> IF m.yes_ask # 0 THEN R(100 - m.yes_ask, 100) ELSE NaN,
     no_ask  |-> IF m.yes_ask # 0 THEN R(100 - m.yes_ask, 100) ELSE NaN]

\* kalshi_nfl_odds_A.fetch_kalshi_nfl_df: one row per market
KalshiRow(m) ==
    [title   |-> m.title,
     yes_bid |-> IF m.yes_bid # 0 THEN R(m.yes_bid, 100) ELSE NaN,
     yes_ask |-> IF m.yes_ask # 0 THEN R(m.yes_ask, 100) ELSE NaN,
     no_bid  |-> IF m.yes_ask # 0 THEN R(100 - m.yes_ask, 100) ELSE NaN,
     no_ask  |-> IF m.yes_bid # 0 THEN R(100 - m.yes_bid, 100) ELSE NaN]

fetch_kalshi_nfl_df(markets) ==
    [i \in 1..Len(markets) |-> KalshiRow(markets[i])]

PinnacleRow(p) ==
    [home |-> p.home, away |-> p.away, period |-> p.description,
     moneyline_home |-> p.ml_home, moneyline_away |-> p.ml_away]

\* pinnacle_nfl_odds_A.fetch_pinnacle_nfl_df: one row per "Game" period
fetch_pinnacle_nfl_df(periods) ==
    LET games == SelectSeq(periods, LAMBDA p : p.description = "Game")
    IN  [i \in 1..Len(games) |-> PinnacleRow(games[i])]

(***************************************************************************)
(* Data preparation shared by simulate_trade and detect_arbitrage          *)
(***************************************************************************)
\* the away probability taken from the home price as well
PreparePinnacleHomeOnly(pdf) ==
    LET kept == SelectSeq(pdf, LAMBDA p : /\ p.period = "Game"
                                          /\ ~IsNaN(p.moneyline_home)
                                          /\ ~IsNaN(p.moneyline_away))
    IN  [i \in 1..Len(kept) |->
            [home |-> kept[i].home, away |-> kept[i].away,
             moneyline_home |-> kept[i].moneyline_home,
             moneyline_away |-> kept[i].moneyline_away,
             home_prob |-> RDiv(One, kept[i].moneyline_home),
             away_prob |-> RDiv(One, kept[i].moneyline_home)]]

\* keep full-game rows with both moneylines, add the implied probabilities
PreparePinnacle(pdf) ==
    LET kept == SelectSeq(pdf, LAMBDA p : /\ p.period = "Game"
                                          /\ ~IsNaN(p.moneyline_home)
                                          /\ ~IsNaN(p.moneyline_away))
    IN  [i \in 1..Len(kept) |->
            [home |-> kept[i].home, away |-> kept[i].away,
             moneyline_home |-> kept[i].moneyline_home,
             moneyline_away |-> kept[i].moneyline_away,
             home_prob |-> RDiv(One, kept[i].moneyline_home),
             away_prob |-> RDiv(One, kept[i].moneyline_away)]]

\* normalised team names and the ask prices used as probabilities
PrepareKalshi(kdf) ==
    [i \in 1..Len(kdf) |->
        [away |-> normalize_team(kdf[i].title.away),
         home |-> normalize_team(kdf[i].title.home),
         yes_bid |-> kdf[i].yes_bid, yes_ask |-> kdf[i].yes_ask,
         no_bid |-> kdf[i].no_bid, no_ask |-> kdf[i].no_ask,
         yes_prob |-> kdf[i].yes_ask,
         no_prob |-> kdf[i].no_ask]]

JoinedRow(k, p) ==
    [home |-> k.home, away |-> k.away,
     yes_prob |-> k.yes_prob, no_prob |-> k.no_prob,
     moneyline_home |-> p.moneyline_home, moneyline_away |-> p.moneyline_away,
     home_prob |-> p.home_prob, away_prob |-> p.away_prob]

\* a left join: a Kalshi row without a Pinnacle match is kept, prices missing
JoinRowsLeft(k, pdf) ==
    LET m == SelectSeq(pdf, LAMBDA p : p.home = k.home /\ p.away = k.away)
    IN  IF m = <<>>
        THEN <<JoinedRow(k, [moneyline_home |-> NaN, moneyline_away |-> NaN,
                             home_prob |-> NaN, away_prob |-> NaN])>>
        ELSE [j \in 1..Len(m) |-> JoinedRow(k, m[j])]

\* the rows of one Kalshi row joined with its Pinnacle matches, in order
JoinRows(k, pdf) ==
    LET m == SelectSeq(pdf, LAMBDA p : p.home = k.home /\ p.away = k.away)
    IN  [j \in 1..Len(m) |-> JoinedRow(k, m[j])]

\* DataFrame.merge(on=["home", "away"], how="inner"): left order kept
RECURSIVE InnerMerge(_, _)
InnerMerge(kdf, pdf) ==
    IF kdf = <<>> THEN <<>>
    ELSE JoinRows(Head(kdf), pdf) \o InnerMerge(Tail(kdf), pdf)

\* no row is dropped
DropDuplicatesNone(s) ==
    s

\* drop_duplicates(subset=["home", "away"]): the first row of a key stays
RECURSIVE DropDuplicates(_)
DropDuplicates(s) ==
    IF s = <<>> THEN <<>>
    ELSE LET front == DropDuplicates(SubSeq(s, 1, Len(s) - 1))
             last  == s[Len(s)]
         IN  IF \E i \in 1..Len(front) :
                    front[i].home = last.home /\ front[i].away = last.away
             THEN front
             ELSE Append(front, last)

MergeFrames(kdf, pdf) ==
    DropDuplicates(InnerMerge(PrepareKalshi(kdf), PreparePinnacle(pdf)))

(***************************************************************************)
(* arb_nfl_A_v2.simulate_trade: the body of the loop over merged rows      *)
(***************************************************************************)
EventName(row) ==
    <<row.away, "at", row.home>>

NoTrades ==
    <<>>

\* a candidate whose profit multiplies the Kelly fraction, not the bet size
CandidateProfitOnFraction(row, side, cost, fair, ask) ==
    LET edge == RSub(fair, cost)
        k    == kelly_fraction(fair, ask, fractional_kelly)
        bet  == RMul(k.val, bankroll)
    IN  [event |-> <<row.away, "at", row.home>>,
         side |-> side,
         kalshi_price |-> cost,
         pinnacle_prob_devig |-> fair,
         edge |-> edge,
         kelly_fraction |-> k.val,
         bet_size |-> bet,
         profit |-> RMul(k.val, edge)]

\* a candidate whose edge is the cost minus the fair probability
CandidateEdgeReversed(row, side, cost, fair, ask) ==
    LET edge == RSub(cost, fair)
        k    == kelly_fraction(fair, ask, fractional_kelly)
        bet  == RMul(k.val, bankroll)
    IN  [event |-> <<row.away, "at", row.home>>,
         side |-> side,
         kalshi_price |-> cost,
         pinnacle_prob_devig |-> fair,
         edge |-> edge,
         kelly_fraction |-> k.val,
         bet_size |-> bet,
         profit |-> RMul(bet, edge)]

\* one candidate trade: side, fee-inclusive cost, devigged probability and
\* the raw ask that is handed to kelly_fraction
Candidate(row, side, cost, fair, ask) ==
    LET edge == RSub(fair, cost)
        k    == kelly_fraction(fair, ask, fractional_kelly)
        bet  == RMul(k.val, bankroll)
    IN  [event |-> EventName(row),
         side |-> side,
         kalshi_price |-> cost,
         pinnacle_prob_devig |-> fair,
         edge |-> edge,
         kelly_fraction |-> k.val,
         bet_size |-> bet,
         profit |-> RMul(bet, edge)]

\* the fee taken as a discount
EffectiveCostDiscounted(ask, fee_rate) ==
    RMul(ask, RSub(One, fee_rate))

\* a direct ask inflated by a venue fee: ask * (1 + fee)
EffectiveCost(ask, fee_rate) ==
    RMul(ask, RAdd(One, fee_rate))

KalshiCost(ask) ==
    EffectiveCost(ask, kalshi_fee)

\* arb_check_deviation: yes_ask * 1.035 and no_ask * 1.035
DeviationCost(ask) ==
    RMul(ask, R(1035, 1000))

\* the comparison made non-strict
FlaggedOrEqual(cost, fair) ==
    RLe(cost, fair)

Flagged(cost, fair) ==
    RLt(cost, fair)

\* Arb 1: buy YES on Kalshi against the devigged Pinnacle away probability
YesTrades(row, dv) ==
    IF Flagged(KalshiCost(row.yes_prob), dv.away)
    THEN <<Candidate(row, "YES Kalshi / Away Pinnacle",
                     KalshiCost(row.yes_prob), dv.away, row.yes_prob)>>
    ELSE NoTrades

\* Arb 2: buy NO on Kalshi against the devigged Pinnacle home probability
NoSideTrades(row, dv) ==
    IF Flagged(KalshiCost(row.no_prob), dv.home)
    THEN <<Candidate(row, "NO Kalshi / Home Pinnacle",
                     KalshiCost(row.no_prob), dv.home, row.no_prob)>>
    ELSE NoTrades

\* only the YES side is evaluated
RowTradesYesOnly(row) ==
    LET dv == devig(row.home_prob, row.away_prob)
    IN  YesTrades(row, dv)

RowTrades(row) ==
    LET dv == devig(row.home_prob, row.away_prob)
    IN  YesTrades(row, dv) \o NoSideTrades(row, dv)

\* does evaluating the row raise (a zero division in devig or in Kelly)?
RowRaises(row) ==
    LET dv == devig(row.home_prob, row.away_prob)
    IN  \/ dv.err
        \/ /\ Flagged(KalshiCost(row.yes_prob), dv.away)
           /\ kelly_fraction(dv.away, row.yes_prob, fractional_kelly).err
        \/ /\ Flagged(KalshiCost(row.no_prob), dv.home)
           /\ kelly_fraction(dv.home, row.no_prob, fractional_kelly).err

\* the first candidate, whatever its edge
FirstTrade(ts) ==
    ts[1]

\* max(trades, key=lambda x: x["edge"]): the first trade of maximal edge
BestTrade(ts) ==
    LET i == CHOOSE c \in 1..Len(ts) :
                 /\ \A j \in 1..Len(ts) : ~RLt(ts[c].edge, ts[j].edge)
                 /\ \A j \in 1..(c - 1) : RLt(ts[j].edge, ts[c].edge)
    IN  ts[i]

\* Series.sum() and Series.mean() of one column
RECURSIVE RSum(_)
RSum(col) ==
    IF col = <<>> THEN Zero ELSE RAdd(Head(col), RSum(Tail(col)))

RMean(col) ==
    RDiv(RSum(col), R(Len(col), 1))

EdgeColumn(log) ==
    [i \in 1..Len(log) |-> log[i].edge]

ProfitColumn(log) ==
    [i \in 1..Len(log) |-> log[i].profit]

Metrics(log) ==
    [average_edge     |-> IF log # <<>> THEN RMean(EdgeColumn(log)) ELSE Zero,
     average_pct_gain |-> IF log # <<>>
                          THEN RDiv(RMean(ProfitColumn(log)), bankroll)
                          ELSE Zero,
     total_PnL        |-> IF log # <<>> THEN RSum(ProfitColumn(log)) ELSE Zero]

NoMetrics ==
    [average_edge |-> Zero, average_pct_gain |-> Zero, total_PnL |-> Zero]

(***************************************************************************)
(* arb_nfl_A.detect_arbitrage: the flag and profit columns                 *)
(***************************************************************************)
tolerance ==
    R(2, 100)

ArbFlag(kalshi_prob, pinnacle_prob) ==
    RLt(RAdd(RDiv(One, kalshi_prob), RDiv(One, pinnacle_prob)),
        RAdd(One, tolerance))

ArbProfit(kalshi_prob, pinnacle_prob) ==
    RSub(One, RAdd(RDiv(One, kalshi_prob), RDiv(One, pinnacle_prob)))

ArbColumns(row) ==
    [home |-> row.home, away |-> row.away,
     yes_prob |-> row.yes_prob, no_prob |-> row.no_prob,
     home_prob |-> row.home_prob, away_prob |-> row.away_prob,
     arb_away |-> ArbFlag(row.yes_prob, row.away_prob),
     arb_home |-> ArbFlag(row.no_prob, row.home_prob),
     has_arb  |-> \/ ArbFlag(row.no_prob, row.home_prob)
                  \/ ArbFlag(row.yes_prob, row.away_prob),
     arb_profit_away |-> ArbProfit(row.yes_prob, row.away_prob),
     arb_profit_home |-> ArbProfit(row.no_prob, row.home_prob)]

ArbTable(frame) ==
    [i \in 1..Len(frame) |-> ArbColumns(frame[i])]

ArbOpps(table) ==
    SelectSeq(table, LAMBDA r : r.has_arb)

(***************************************************************************)
(* arb_check_deviation.detect_profitable_arbs: columns and selection       *)
(***************************************************************************)
\* Kalshi rows: normalised names, asks inflated by the 3.5% fee
PrepareKalshiDeviation(kdf) ==
    [i \in 1..Len(kdf) |->
        [away |-> normalize_team(kdf[i].title.away),
         home |-> normalize_team(kdf[i].title.home),
         yes_bid |-> kdf[i].yes_bid, yes_ask |-> kdf[i].yes_ask,
         no_bid |-> kdf[i].no_bid, no_ask |-> kdf[i].no_ask,
         yes_prob |-> DeviationCost(kdf[i].yes_ask),
         no_prob |-> DeviationCost(kdf[i].no_ask)]]

\* Pinnacle rows: every fetched row is kept, a missing price stays missing
PreparePinnacleDeviation(pdf) ==
    [i \in 1..Len(pdf) |->
        [home |-> pdf[i].home, away |-> pdf[i].away,
         moneyline_home |-> pdf[i].moneyline_home,
         moneyline_away |-> pdf[i].moneyline_away,
         home_prob |-> RDiv(One, pdf[i].moneyline_home),
         away_prob |-> RDiv(One, pdf[i].moneyline_away)]]

DeviationMergeFrames(kdf, pdf) ==
    DropDuplicates(InnerMerge(PrepareKalshiDeviation(kdf),
                              PreparePinnacleDeviation(pdf)))

\* only the away deviation is ever reported
ArbDeviationAwayOnly(arb_away, arb_home, dev_away, dev_home) ==
    IF arb_away THEN dev_away ELSE Zero

\* the lambda of lines 84-87: away first, then home, else 0
ArbDeviation(arb_away, arb_home, dev_away, dev_home) ==
    IF arb_away THEN dev_away
    ELSE IF arb_home THEN dev_home
    ELSE Zero

DeviationColumns(row) ==
    LET arb_home == RLt(row.no_prob, row.home_prob)
        arb_away == RLt(row.yes_prob, row.away_prob)
        dev_home == RSub(row.no_prob, row.home_prob)
        dev_away == RSub(row.yes_prob, row.away_prob)
    IN  [home |-> row.home, away |-> row.away,
         yes_prob |-> row.yes_prob, no_prob |-> row.no_prob,
         home_prob |-> row.home_prob, away_prob |-> row.away_prob,
         arb_home |-> arb_home,
         arb_away |-> arb_away,
         has_arb  |-> arb_home \/ arb_away,
         dev_home |-> dev_home,
         dev_away |-> dev_away,
         arb_deviation |-> ArbDeviation(arb_away, arb_home, dev_away, dev_home)]

DeviationTable(frame) ==
    [i \in 1..Len(frame) |-> DeviationColumns(frame[i])]

\* merged[has_arb & (arb_deviation < 0)]
Profitable(table) ==
    SelectSeq(table, LAMBDA r : r.has_arb /\ RLt(r.arb_deviation, Zero))

\* one row put into a frame already sorted by arb_deviation, after its equals
RECURSIVE InsertByDeviation(_, _)
InsertByDeviation(r, sorted) ==
    IF sorted = <<>> THEN <<r>>
    ELSE IF RLt(r.arb_deviation, Head(sorted).arb_deviation)
         THEN <<r>> \o sorted
         ELSE <<Head(sorted)>> \o InsertByDeviation(r, Tail(sorted))

\* sort_values("arb_deviation"), ascending
RECURSIVE SortByDeviation(_)
SortByDeviation(frame) ==
    IF frame = <<>> THEN <<>>
    ELSE InsertByDeviation(frame[Len(frame)],
                           SortByDeviation(SubSeq(frame, 1, Len(frame) - 1)))

(***************************************************************************)
(* Arguments on which devig and kelly_fraction are applied directly        *)
(***************************************************************************)
\* probabilities 1/PGrid .. 1
Probabilities ==
    {R(i, PGrid) : i \in 1..PGrid}

\* prices up to 2: probabilities and decimal odds
Prices ==
    {R(i, PGrid) : i \in 1..(2 * PGrid)}

Shrinkages ==
    {fractional_kelly, R(1, 2), One}

\* raw pairs handed to devig, non-positive values included
RawProbabilities ==
    {R(i, PGrid) : i \in (-1)..PGrid}

\* the prices Kalshi quotes, in cents; 0 also stands for a missing quote
Cents ==
    0..100

MarketCall(bid, ask) ==
    [fn |-> "fetch_kalshi_nfl_df", a |-> R(bid, 1), b |-> R(ask, 1), s |-> Zero,
     done |-> FALSE, err |-> FALSE, val |-> Zero, val2 |-> Zero]

NoCall ==
    [fn |-> "none", a |-> Zero, b |-> Zero, s |-> Zero,
     done |-> FALSE, err |-> FALSE, val |-> Zero, val2 |-> Zero]

KellyCall(p, k, sh) ==
    [fn |-> "kelly_fraction", a |-> p, b |-> k, s |-> sh,
     done |-> FALSE, err |-> FALSE, val |-> Zero, val2 |-> Zero]

DevigCall(h, aw) ==
    [fn |-> "devig", a |-> h, b |-> aw, s |-> Zero,
     done |-> FALSE, err |-> FALSE, val |-> Zero, val2 |-> Zero]

(***************************************************************************)
(* The odds collector scripts before they start                            *)
(***************************************************************************)
NoArchive ==
    [crawler |-> "none"]

NoDaily ==
    [job |-> "none"]

NoPoll ==
    [measure |-> "none"]

(***************************************************************************)
(* State                                                                   *)
(***************************************************************************)
VARIABLES
    pc,           \* position of the running script
    kalshi_df,    \* rows returned by fetch_kalshi_nfl_df
    pinnacle_df,  \* rows returned by fetch_pinnacle_nfl_df
    merged,       \* the joined, de-duplicated frame
    idx,          \* number of merged rows the loop has consumed
    trades,       \* the list `trades` of the latest loop iteration
    trade_log,    \* simulate_trade's trade_log
    metrics,      \* simulate_trade's metrics
    result,       \* shape of the value returned by simulate_trade
    arb_opps,     \* the frame printed by detect_arbitrage / detect_profitable_arbs
    call,         \* a direct application of devig or kelly_fraction
    profitable,   \* detect_profitable_arbs' frame `profitable`
    archive,      \* an archive crawl: page_num, requested pages, events
    daily,        \* daily_odds.run_daily: files, seen keys, counters
    poll          \* Live-socket.measure_polling: rows, sleeps, summary

\* the state of the arbitrage scripts
arbVars ==
    <<pc, kalshi_df, pinnacle_df, merged, idx, trades, trade_log, metrics,
      result, arb_opps, call, profitable>>

vars ==
    <<pc, kalshi_df, pinnacle_df, merged, idx, trades, trade_log, metrics,
      result, arb_opps, call, profitable, archive, daily, poll>>

Init ==
    /\ pc = "start"
    /\ kalshi_df = <<>>
    /\ pinnacle_df = <<>>
    /\ merged = <<>>
    /\ idx = 0
    /\ trades = NoTrades
    /\ trade_log = <<>>
    /\ metrics = NoMetrics
    /\ result = "none"
    /\ arb_opps = <<>>
    /\ profitable = <<>>
    /\ archive = NoArchive
    /\ daily = NoDaily
    /\ poll = NoPoll
    /\ call = NoCall

\* simulate_trade lines 77-82: both fetches, nothing to do when one is empty
FetchNoData ==
    /\ pc = "start"
    /\ \E km \in BSeq(KalshiMarkets, MaxKalshiRows),
          pp \in BSeq(PinnaclePeriods, MaxPinnacleRows) :
          /\ kalshi_df' = fetch_kalshi_nfl_df(km)
          /\ pinnacle_df' = fetch_pinnacle_nfl_df(pp)
          /\ (kalshi_df' = <<>> \/ pinnacle_df' = <<>>)
    /\ pc' = "returned"
    /\ result' = "dataframe"
    /\ UNCHANGED <<merged, idx, trades, trade_log, metrics, arb_opps, call>>
    /\ UNCHANGED <<profitable, archive, daily, poll>>

\* simulate_trade lines 77-106: fetch, prepare, merge
FetchAndMerge ==
    /\ pc = "start"
    /\ \E km \in BSeq(KalshiMarkets, MaxKalshiRows),
          pp \in BSeq(PinnaclePeriods, MaxPinnacleRows) :
          /\ kalshi_df' = fetch_kalshi_nfl_df(km)
          /\ pinnacle_df' = fetch_pinnacle_nfl_df(pp)
          /\ kalshi_df' # <<>>
          /\ pinnacle_df' # <<>>
    /\ merged' = MergeFrames(kalshi_df', pinnacle_df')
    /\ pc' = "loop"
    /\ UNCHANGED <<idx, trades, trade_log, metrics, result, arb_opps, call>>
    /\ UNCHANGED <<profitable, archive, daily, poll>>

\* simulate_trade lines 107-152: one iteration of the loop
ProcessRow ==
    /\ pc = "loop"
    /\ idx < Len(merged)
    /\ idx' = idx + 1
    /\ LET row == merged[idx + 1]
       IN  IF RowRaises(row)
           THEN /\ pc' = "raised"
                /\ UNCHANGED <<trades, trade_log>>
           ELSE /\ trades' = RowTrades(row)
                /\ trade_log' = IF trades' # NoTrades
                                THEN Append(trade_log, BestTrade(trades'))
                                ELSE trade_log
                /\ pc' = pc
    /\ UNCHANGED <<kalshi_df, pinnacle_df, merged, metrics, result, arb_opps, call>>
    /\ UNCHANGED <<profitable, archive, daily, poll>>

\* simulate_trade lines 155-168: metrics and the returned pair
Finish ==
    /\ pc = "loop"
    /\ idx = Len(merged)
    /\ metrics' = Metrics(trade_log)
    /\ result' = "pair"
    /\ pc' = "returned"
    /\ UNCHANGED <<kalshi_df, pinnacle_df, merged, idx, trades, trade_log,
                   arb_opps, call>>
    /\ UNCHANGED <<profitable, archive, daily, poll>>

\* __main__ lines 171-176: trades_df, metrics = simulate_trade()
Main ==
    /\ pc = "returned"
    /\ pc' = IF result = "pair" THEN "printed" ELSE "unpack_error"
    /\ UNCHANGED <<kalshi_df, pinnacle_df, merged, idx, trades, trade_log,
                   metrics, result, arb_opps, call>>
    /\ UNCHANGED <<profitable, archive, daily, poll>>

Next ==
    \/ FetchNoData
    \/ FetchAndMerge
    \/ ProcessRow
    \/ Finish
    \/ Main

Spec ==
    Init /\ [][Next]_vars

(***************************************************************************)
(* arb_nfl_A.detect_arbitrage                                              *)
(***************************************************************************)
\* lines 59-64: nothing is printed when a venue returns no rows
DetectNoData ==
    /\ pc = "start"
    /\ \E km \in BSeq(KalshiMarkets, MaxKalshiRows),
          pp \in BSeq(PinnaclePeriods, MaxPinnacleRows) :
          /\ kalshi_df' = fetch_kalshi_nfl_df(km)
          /\ pinnacle_df' = fetch_pinnacle_nfl_df(pp)
          /\ (kalshi_df' = <<>> \/ pinnacle_df' = <<>>)
    /\ pc' = "returned"
    /\ UNCHANGED <<merged, idx, trades, trade_log, metrics, result, arb_opps, call>>
    /\ UNCHANGED <<profitable, archive, daily, poll>>

\* lines 59-95: fetch, prepare, merge, flag and profit columns
DetectMerge ==
    /\ pc = "start"
    /\ \E km \in BSeq(KalshiMarkets, MaxKalshiRows),
          pp \in BSeq(PinnaclePeriods, MaxPinnacleRows) :
          /\ kalshi_df' = fetch_kalshi_nfl_df(km)
          /\ pinnacle_df' = fetch_pinnacle_nfl_df(pp)
          /\ kalshi_df' # <<>>
          /\ pinnacle_df' # <<>>
    /\ merged' = ArbTable(MergeFrames(kalshi_df', pinnacle_df'))
    /\ pc' = "flagged"
    /\ UNCHANGED <<idx, trades, trade_log, metrics, result, arb_opps, call>>
    /\ UNCHANGED <<profitable, archive, daily, poll>>

\* lines 97-105: the rows with has_arb are printed
DetectPrint ==
    /\ pc = "flagged"
    /\ arb_opps' = ArbOpps(merged)
    /\ pc' = "printed"
    /\ UNCHANGED <<kalshi_df, pinnacle_df, merged, idx, trades, trade_log,
                   metrics, result, call>>
    /\ UNCHANGED <<profitable, archive, daily, poll>>

NextDetect ==
    \/ DetectNoData
    \/ DetectMerge
    \/ DetectPrint

SpecDetect ==
    Init /\ [][NextDetect]_vars

(***************************************************************************)
(* arb_check_deviation.detect_profitable_arbs                              *)
(***************************************************************************)
\* lines 48-53: "No data found." when a venue returns no rows
DeviationNoData ==
    /\ pc = "start"
    /\ \E km \in BSeq(KalshiMarkets, MaxKalshiRows),
          pp \in BSeq(PinnaclePeriods, MaxPinnacleRows) :
          /\ kalshi_df' = fetch_kalshi_nfl_df(km)
          /\ pinnacle_df' = fetch_pinnacle_nfl_df(pp)
          /\ (kalshi_df' = <<>> \/ pinnacle_df' = <<>>)
    /\ pc' = "returned"
    /\ UNCHANGED <<merged, idx, trades, trade_log, metrics, result, arb_opps, call>>
    /\ UNCHANGED <<profitable, archive, daily, poll>>

\* lines 48-87: fetch, prepare, merge, flags and deviations
DeviationMerge ==
    /\ pc = "start"
    /\ \E km \in BSeq(KalshiMarkets, MaxKalshiRows),
          pp \in BSeq(PinnaclePeriods, MaxPinnacleRows) :
          /\ kalshi_df' = fetch_kalshi_nfl_df(km)
          /\ pinnacle_df' = fetch_pinnacle_nfl_df(pp)
          /\ kalshi_df' # <<>>
          /\ pinnacle_df' # <<>>
    /\ merged' = DeviationTable(DeviationMergeFrames(kalshi_df', pinnacle_df'))
    /\ pc' = "flagged"
    /\ UNCHANGED <<idx, trades, trade_log, metrics, result, arb_opps, call>>
    /\ UNCHANGED <<profitable, archive, daily, poll>>

\* lines 89-105: the profitable rows, printed in order of deviation
DeviationReport ==
    /\ pc = "flagged"
    /\ profitable' = Profitable(merged)
    /\ arb_opps' = SortByDeviation(profitable')
    /\ pc' = "printed"
    /\ UNCHANGED <<kalshi_df, pinnacle_df, merged, idx, trades, trade_log,
                   metrics, result, call>>
    /\ UNCHANGED <<archive, daily, poll>>

NextDeviation ==
    \/ DeviationNoData
    \/ DeviationMerge
    \/ DeviationReport

SpecDeviation ==
    Init /\ [][NextDeviation]_vars

(***************************************************************************)
(* kelly_fraction and devig applied to arguments of the caller's choice    *)
(***************************************************************************)
InitKelly ==
    /\ pc = "call"
    /\ kalshi_df = <<>>
    /\ pinnacle_df = <<>>
    /\ merged = <<>>
    /\ idx = 0
    /\ trades = NoTrades
    /\ trade_log = <<>>
    /\ metrics = NoMetrics
    /\ result = "none"
    /\ arb_opps = <<>>
    /\ profitable = <<>>
    /\ archive = NoArchive
    /\ daily = NoDaily
    /\ poll = NoPoll
    /\ call \in {KellyCall(p, k, sh) : p \in Probabilities, k \in Prices,
                                      sh \in Shrinkages}

ApplyKelly ==
    /\ pc = "call"
    /\ call.fn = "kelly_fraction"
    /\ LET r == kelly_fraction(call.a, call.b, call.s)
       IN  call' = [call EXCEPT !.done = TRUE, !.err = r.err, !.val = r.val]
    /\ pc' = IF call'.err THEN "raised" ELSE "returned"
    /\ UNCHANGED <<kalshi_df, pinnacle_df, merged, idx, trades, trade_log,
                   metrics, result, arb_opps>>
    /\ UNCHANGED <<profitable, archive, daily, poll>>

SpecKelly ==
    InitKelly /\ [][ApplyKelly]_vars

InitDevig ==
    /\ pc = "call"
    /\ kalshi_df = <<>>
    /\ pinnacle_df = <<>>
    /\ merged = <<>>
    /\ idx = 0
    /\ trades = NoTrades
    /\ trade_log = <<>>
    /\ metrics = NoMetrics
    /\ result = "none"
    /\ arb_opps = <<>>
    /\ profitable = <<>>
    /\ archive = NoArchive
    /\ daily = NoDaily
    /\ poll = NoPoll
    /\ call \in {DevigCall(h, aw) : h \in RawProbabilities, aw \in RawProbabilities}

ApplyDevig ==
    /\ pc = "call"
    /\ call.fn = "devig"
    /\ LET r == devig(call.a, call.b)
       IN  call' = [call EXCEPT !.done = TRUE, !.err = r.err,
                                !.val = r.home, !.val2 = r.away]
    /\ pc' = IF call'.err THEN "raised" ELSE "returned"
    /\ UNCHANGED <<kalshi_df, pinnacle_df, merged, idx, trades, trade_log,
                   metrics, result, arb_opps>>
    /\ UNCHANGED <<profitable, archive, daily, poll>>

SpecDevig ==
    InitDevig /\ [][ApplyDevig]_vars

\* devig applied a second time, to the pair it has just returned
ReapplyDevig ==
    /\ pc = "returned"
    /\ call.fn = "devig"
    /\ LET r == devig(call.val, call.val2)
       IN  call' = [DevigCall(call.val, call.val2) EXCEPT
                        !.done = TRUE, !.err = r.err,
                        !.val = r.home, !.val2 = r.away]
    /\ pc' = IF call'.err THEN "raised" ELSE "reapplied"
    /\ UNCHANGED <<kalshi_df, pinnacle_df, merged, idx, trades, trade_log,
                   metrics, result, arb_opps>>
    /\ UNCHANGED <<profitable, archive, daily, poll>>

NextDevigTwice ==
    \/ ApplyDevig
    \/ ReapplyDevig

SpecDevigTwice ==
    InitDevig /\ [][NextDevigTwice]_vars

(***************************************************************************)
(* The fee inflation applied to one ask under two fee rates                *)
(***************************************************************************)
\* the fee rates of the two scripts, and no fee
FeeRates ==
    {Zero, kalshi_fee, R(35, 1000)}

FeeCall(ask, fee1, fee2) ==
    [fn |-> "effective_cost", a |-> ask, b |-> fee1, s |-> fee2,
     done |-> FALSE, err |-> FALSE, val |-> Zero, val2 |-> Zero]

InitFee ==
    /\ pc = "call"
    /\ kalshi_df = <<>>
    /\ pinnacle_df = <<>>
    /\ merged = <<>>
    /\ idx = 0
    /\ trades = NoTrades
    /\ trade_log = <<>>
    /\ metrics = NoMetrics
    /\ result = "none"
    /\ arb_opps = <<>>
    /\ profitable = <<>>
    /\ archive = NoArchive
    /\ daily = NoDaily
    /\ poll = NoPoll
    /\ call \in {FeeCall(ask, f1, f2) : ask \in Probabilities,
                                       f1 \in FeeRates, f2 \in FeeRates}

ApplyFee ==
    /\ pc = "call"
    /\ call.fn = "effective_cost"
    /\ call' = [call EXCEPT !.done = TRUE,
                            !.val = EffectiveCost(call.a, call.b),
                            !.val2 = EffectiveCost(call.a, call.s)]
    /\ pc' = "returned"
    /\ UNCHANGED <<kalshi_df, pinnacle_df, merged, idx, trades, trade_log,
                   metrics, result, arb_opps>>
    /\ UNCHANGED <<profitable, archive, daily, poll>>

SpecFee ==
    InitFee /\ [][ApplyFee]_vars

(***************************************************************************)
(* fetch_kalshi_nfl_df on one market with quotes of the caller's choice    *)
(***************************************************************************)
InitMarket ==
    /\ pc = "call"
    /\ kalshi_df = <<>>
    /\ pinnacle_df = <<>>
    /\ merged = <<>>
    /\ idx = 0
    /\ trades = NoTrades
    /\ trade_log = <<>>
    /\ metrics = NoMetrics
    /\ result = "none"
    /\ arb_opps = <<>>
    /\ profitable = <<>>
    /\ archive = NoArchive
    /\ daily = NoDaily
    /\ poll = NoPoll
    /\ call \in {MarketCall(bid, ask) : bid \in Cents, ask \in Cents}

\* kalshi_nfl_odds_A lines 44-66 for one event with one market
ApplyMarket ==
    /\ pc = "call"
    /\ call.fn = "fetch_kalshi_nfl_df"
    /\ kalshi_df' = fetch_kalshi_nfl_df(
                        <<KalshiMarket("Dallas", "Philadelphia", call.a.n, call.b.n)>>)
    /\ call' = [call EXCEPT !.done = TRUE]
    /\ pc' = "returned"
    /\ UNCHANGED <<pinnacle_df, merged, idx, trades, trade_log, metrics, result,
                   arb_opps>>
    /\ UNCHANGED <<profitable, archive, daily, poll>>

SpecMarket ==
    InitMarket /\ [][ApplyMarket]_vars

(***************************************************************************)
(* Archive pagination: terminal_ui._list_archive_events_all and            *)
(* daily_odds.run_daily.fetch_archive_for_league                           *)
(***************************************************************************)
\* event ids on an archive page; 0 stands for a missing or zero event_id
ArchivePages ==
    {<<1>>, <<2, 1>>, <<0, 2>>}

\* what the provider may answer to one page request
ArchiveReplies ==
    {"events", "empty", "malformed", "http_422", "http_error"}

\* the horizon up to which the unbounded loop of the daily crawl is followed
PageCap ==
    MaxPagesParam + 2

StartArchive(crawler, league, max_pages) ==
    [crawler |-> crawler, league |-> league, max_pages |-> max_pages,
     page_num |-> 1, pages |-> <<>>, replies |-> <<>>, requests |-> 0,
     all_events |-> <<>>, seen_event_ids |-> {}, status |-> "running"]

InitArchive ==
    /\ pc = "start"
    /\ kalshi_df = <<>>
    /\ pinnacle_df = <<>>
    /\ merged = <<>>
    /\ idx = 0
    /\ trades = NoTrades
    /\ trade_log = <<>>
    /\ metrics = NoMetrics
    /\ result = "none"
    /\ arb_opps = <<>>
    /\ call = NoCall
    /\ profitable = <<>>
    /\ daily = NoDaily
    /\ poll = NoPoll
    /\ archive \in {StartArchive("ui", lg, mp) :
                        lg \in {"none", "nfl"}, mp \in 0..MaxPagesParam}
                   \cup {StartArchive("daily", lg, 0) : lg \in {"none", "nfl"}}

\* lines 518-525: events with a non-zero, unseen event_id are collected
RECURSIVE CollectUnseen(_, _, _)
CollectUnseen(page, events, seen) ==
    IF page = <<>> THEN [all_events |-> events, seen_event_ids |-> seen]
    ELSE IF Head(page) # 0 /\ Head(page) \notin seen
         THEN CollectUnseen(Tail(page), Append(events, Head(page)),
                            seen \cup {Head(page)})
         ELSE CollectUnseen(Tail(page), events, seen)

\* terminal_ui._try_archive: a 422 on a league-filtered request is retried
\* once without the filter; the outcome is the reply the loop works with
TryArchive(league, first, second) ==
    IF first = "http_422" /\ league # "none"
    THEN [reply |-> second, calls |-> 2]
    ELSE [reply |-> first, calls |-> 1]

\* the outcome of one pass through the loop body on the given reply
AfterReply(a, reply, calls, page, collected) ==
    [a EXCEPT !.pages = Append(a.pages, a.page_num),
              !.replies = Append(a.replies, reply),
              !.requests = a.requests + calls,
              !.all_events = IF reply = "events" THEN collected.all_events
                             ELSE a.all_events,
              !.seen_event_ids = IF reply = "events" THEN collected.seen_event_ids
                                 ELSE a.seen_event_ids,
              !.page_num = IF reply = "events" THEN a.page_num + 1
                           ELSE a.page_num,
              !.status = CASE reply = "events" -> "running"
                           [] reply \in {"empty", "malformed"} -> "done"
                           [] OTHER -> "raised"]

\* terminal_ui lines 493-527: one pass of `while page_num <= max_pages`
UiArchivePage ==
    /\ archive.crawler = "ui"
    /\ archive.status = "running"
    /\ archive.page_num <= archive.max_pages
    /\ \E first \in ArchiveReplies, second \in ArchiveReplies,
          page \in ArchivePages :
          LET t == TryArchive(archive.league, first, second)
          IN  archive' = AfterReply(archive, t.reply, t.calls, page,
                                    CollectUnseen(page, archive.all_events,
                                                  archive.seen_event_ids))
    /\ UNCHANGED arbVars
    /\ UNCHANGED <<daily, poll>>

\* terminal_ui lines 493, 528: the page limit is reached, all_events returned
UiArchiveReturn ==
    /\ archive.crawler = "ui"
    /\ archive.status = "running"
    /\ archive.page_num > archive.max_pages
    /\ archive' = [archive EXCEPT !.status = "done"]
    /\ UNCHANGED arbVars
    /\ UNCHANGED <<daily, poll>>

\* daily_odds lines 267-281: one pass of `while True`; every event of the
\* page is appended, an HTTP error leaves run_daily
DailyArchivePage ==
    /\ archive.crawler = "daily"
    /\ archive.status = "running"
    /\ archive.page_num <= PageCap
    /\ \E reply \in ArchiveReplies, page \in ArchivePages :
          archive' = AfterReply(archive, reply, 1, page,
                                [all_events |-> archive.all_events \o page,
                                 seen_event_ids |-> archive.seen_event_ids])
    /\ UNCHANGED arbVars
    /\ UNCHANGED <<daily, poll>>

NextArchive ==
    \/ UiArchivePage
    \/ UiArchiveReturn
    \/ DailyArchivePage

SpecArchive ==
    InitArchive /\ [][NextArchive]_vars

(***************************************************************************)
(* daily_odds.run_daily: one job, and _export_event_csv_from_details       *)
(***************************************************************************)
\* FORCE_DATE_ISO
target_date ==
    "2025-08-22"

\* str(name).strip().lower() on the names of the model
Normalize(name) ==
    CASE name = "Yankees"  -> "yankees"
      [] name = " yankees" -> "yankees"
      [] name = "Braves"   -> "braves"
      [] name = "Mets"     -> "mets"
      [] name = "Test 1"   -> "test 1"

\* _name_compact: the alphanumeric characters of the name, case kept
NameCompact(name) ==
    CASE name = "Yankees"  -> "Yankees"
      [] name = " yankees" -> "yankees"
      [] name = "Braves"   -> "Braves"
      [] name = "Mets"     -> "Mets"
      [] name = "Test 1"   -> "Test1"

\* `"test" in h or h in ("test 1", "test1", "test 2", "test2")`
IsTestFixture(h) ==
    h \in {"test 1"}

\* one event of the provider's list; ticks: the odds ticks its details hold
DailyEvent(lid, eid, date, time, home, away, ticks) ==
    [ids_ok |-> lid # 0 - 1, league_id |-> lid, event_id |-> eid,
     starts |-> [date |-> date, time |-> time],
     home |-> home, away |-> away, ticks |-> ticks]

\* league_id -1 stands for an id that int() rejects
DailyEvents ==
    {DailyEvent(10, 1, "2025-08-22", "18:00", "Yankees", "Braves", 2),
     DailyEvent(10, 2, "2025-08-22", "18:00", " yankees", "Braves", 1),
     DailyEvent(10, 3, "2025-08-22", "22:00", "Yankees", "Braves", 1),
     DailyEvent(20, 4, "2025-08-22", "18:00", "Mets", "Braves", 1),
     DailyEvent(10, 5, "2025-08-23", "01:00", "Mets", "Braves", 1),
     DailyEvent(10, 6, "2025-08-22", "18:00", "Test 1", "Braves", 1),
     DailyEvent(10, 7, "2025-08-22", "18:00", "Mets", "Braves", 0),
     DailyEvent(0 - 1, 8, "2025-08-22", "18:00", "Mets", "Yankees", 1)}

\* the job's league_ids: one configured league, or none (every league)
LeagueConfigs ==
    {{10}, {}}

\* the key without strip().lower() on the names
EventKeyRaw(ev) ==
    <<ev.starts, ev.home, ev.away>>

\* key = (starts, h, a)
EventKey(ev) ==
    <<ev.starts, Normalize(ev.home), Normalize(ev.away)>>

\* lines 292-311: does the loop reach the details fetch for this event?
Eligible(ev, leagues, seen_keys) ==
    /\ ev.ids_ok
    /\ (leagues # {} => ev.league_id \in leagues)
    /\ ev.starts.date = target_date
    /\ ~IsTestFixture(Normalize(ev.home))
    /\ ~IsTestFixture(Normalize(ev.away))
    /\ EventKey(ev) \notin seen_keys

\* fname = f"{date_str}_{_name_compact(home)}_{_name_compact(away)}.csv"
FileName(ev) ==
    <<ev.starts.date, NameCompact(ev.home), NameCompact(ev.away)>>

FileNames(files) ==
    {f.name : f \in files}

\* the value None returned instead of a path
NoPath ==
    <<>>

\* the export without the two early returns
ExportEventCsvAlways(ev, files) ==
    [path  |-> FileName(ev),
     files |-> {f \in files : f.name # FileName(ev)}
               \cup {[name |-> FileName(ev), event_id |-> ev.event_id,
                      rows |-> ev.ticks]}]

\* _export_event_csv_from_details lines 207-236: None when the file exists
\* or there are no rows, else the file is written and its path returned
ExportEventCsv(ev, files) ==
    IF FileName(ev) \in FileNames(files) THEN [path |-> NoPath, files |-> files]
    ELSE IF ev.ticks = 0 THEN [path |-> NoPath, files |-> files]
    ELSE [path  |-> FileName(ev),
          files |-> files \cup {[name |-> FileName(ev), event_id |-> ev.event_id,
                                 rows |-> ev.ticks]}]

\* a CSV left in out_dir by an earlier export
OldFile ==
    [name |-> <<"2025-08-22", "Yankees", "Braves">>, event_id |-> 0, rows |-> 5]

StartDaily(events, leagues, files) ==
    [job |-> "running", run |-> 1, events |-> events, leagues |-> leagues,
     i |-> 0, seen_keys |-> {}, fetches |-> <<>>, outcomes |-> <<>>,
     total |-> 0, files |-> files, files_at_start |-> files,
     earlier_errors |-> 0]

InitDaily ==
    /\ pc = "start"
    /\ kalshi_df = <<>>
    /\ pinnacle_df = <<>>
    /\ merged = <<>>
    /\ idx = 0
    /\ trades = NoTrades
    /\ trade_log = <<>>
    /\ metrics = NoMetrics
    /\ result = "none"
    /\ arb_opps = <<>>
    /\ call = NoCall
    /\ profitable = <<>>
    /\ archive = NoArchive
    /\ poll = NoPoll
    /\ daily \in {StartDaily(evs, lgs, fs) :
                     evs \in BSeq(DailyEvents, MaxEvents),
                     lgs \in LeagueConfigs,
                     fs \in {{}, {OldFile}}}

\* lines 291-311: an event that one of the `continue` statements passes over
DailySkipEvent ==
    /\ daily.job = "running"
    /\ daily.i < Len(daily.events)
    /\ ~Eligible(daily.events[daily.i + 1], daily.leagues, daily.seen_keys)
    /\ daily' = [daily EXCEPT !.i = daily.i + 1]
    /\ UNCHANGED arbVars
    /\ UNCHANGED <<archive, poll>>

\* lines 309-323: the key is recorded, the details are fetched and exported;
\* an exception of the fetch is printed and the loop goes on
DailyExportEvent ==
    /\ daily.job = "running"
    /\ daily.i < Len(daily.events)
    /\ Eligible(daily.events[daily.i + 1], daily.leagues, daily.seen_keys)
    /\ \E fetched \in BOOLEAN :
          LET ev == daily.events[daily.i + 1]
              ex == ExportEventCsv(ev, daily.files)
              base == [daily EXCEPT
                          !.i = daily.i + 1,
                          !.seen_keys = daily.seen_keys \cup {EventKey(ev)},
                          !.fetches = Append(daily.fetches, ev)]
          IN  daily' =
                  IF ~fetched
                  THEN [base EXCEPT !.outcomes = Append(daily.outcomes, "error")]
                  ELSE IF ex.path # NoPath
                  THEN [base EXCEPT !.outcomes = Append(daily.outcomes, "ok"),
                                    !.total = daily.total + 1,
                                    !.files = ex.files]
                  ELSE [base EXCEPT !.outcomes = Append(daily.outcomes, "skip"),
                                    !.files = ex.files]
    /\ UNCHANGED arbVars
    /\ UNCHANGED <<archive, poll>>

\* lines 325-326: "Done. Exported {total} event CSVs"
DailyDone ==
    /\ daily.job = "running"
    /\ daily.i = Len(daily.events)
    /\ daily' = [daily EXCEPT !.job = "done"]
    /\ UNCHANGED arbVars
    /\ UNCHANGED <<archive, poll>>

\* run_daily is started again for the same date, events and out_dir
DailyRunAgain ==
    /\ daily.job = "done"
    /\ daily.run = 1
    /\ daily' = [StartDaily(daily.events, daily.leagues, daily.files) EXCEPT
                    !.run = 2,
                    !.earlier_errors =
                        Cardinality({k \in 1..Len(daily.outcomes) :
                                        daily.outcomes[k] = "error"})]
    /\ UNCHANGED arbVars
    /\ UNCHANGED <<archive, poll>>

NextDaily ==
    \/ DailySkipEvent
    \/ DailyExportEvent
    \/ DailyDone
    \/ DailyRunAgain

SpecDaily ==
    InitDaily /\ [][NextDaily]_vars

(***************************************************************************)
(* Live-socket.measure_polling                                             *)
(***************************************************************************)
\* latencies of one attempt, in milliseconds
Latencies ==
    {10, 20, 40}

\* err is None
NoError ==
    "None"

\* what one call of do_call_markets / do_call_details may come to: the new
\* sport_id_hint and the error string it returns
MarketsOutcomes(hint) ==
    IF hint = "unknown"
    THEN {[hint |-> "unknown", error |-> "details request failed"],
          [hint |-> "unknown", error |-> "Could not resolve sport_id for event"],
          [hint |-> "known", error |-> "markets request failed"],
          [hint |-> "known", error |-> NoError]}
    ELSE {[hint |-> "known", error |-> "markets request failed"],
          [hint |-> "known", error |-> NoError]}

DetailsOutcomes(hint) ==
    {[hint |-> hint, error |-> "details request failed"],
     [hint |-> hint, error |-> NoError]}

StartPoll(measure, polls, hint, csv_path) ==
    [measure |-> measure, polls |-> polls, sport_id_hint |-> hint,
     csv_path |-> csv_path, i |-> 0, rows |-> <<>>, sleeps |-> <<>>,
     status |-> "polling", summary |-> [count |-> 0], csv |-> <<>>]

InitPoll ==
    /\ pc = "start"
    /\ kalshi_df = <<>>
    /\ pinnacle_df = <<>>
    /\ merged = <<>>
    /\ idx = 0
    /\ trades = NoTrades
    /\ trade_log = <<>>
    /\ metrics = NoMetrics
    /\ result = "none"
    /\ arb_opps = <<>>
    /\ call = NoCall
    /\ profitable = <<>>
    /\ archive = NoArchive
    /\ daily = NoDaily
    /\ poll \in {StartPoll(m, n, h, c) :
                    m \in {"markets", "details"}, n \in 0..MaxPolls,
                    h \in {"unknown", "known"}, c \in BOOLEAN}

\* lines 292-296: the row is appended, then the pause if an attempt is left
AfterAttempt(p, latency, outcome) ==
    [p EXCEPT !.i = p.i + 1,
              !.sport_id_hint = outcome.hint,
              !.rows = Append(p.rows, [iteration |-> p.i + 1,
                                       latency_ms |-> latency,
                                       error |-> outcome.error]),
              !.sleeps = IF p.i + 1 < p.polls THEN Append(p.sleeps, p.i + 1)
                         ELSE p.sleeps]

\* lines 260-277, 292-296: one iteration with measure == "markets"
PollMarkets ==
    /\ poll.measure = "markets"
    /\ poll.status = "polling"
    /\ poll.i < poll.polls
    /\ \E latency \in Latencies, outcome \in MarketsOutcomes(poll.sport_id_hint) :
          poll' = AfterAttempt(poll, latency, outcome)
    /\ UNCHANGED arbVars
    /\ UNCHANGED <<archive, daily>>

\* lines 278-296: one iteration with measure == "details"
PollDetails ==
    /\ poll.measure = "details"
    /\ poll.status = "polling"
    /\ poll.i < poll.polls
    /\ \E latency \in Latencies, outcome \in DetailsOutcomes(poll.sport_id_hint) :
          poll' = AfterAttempt(poll, latency, outcome)
    /\ UNCHANGED arbVars
    /\ UNCHANGED <<archive, daily>>

\* the latencies of all rows, failed attempts included
TimingsAll(rows) ==
    [k \in 1..Len(rows) |-> rows[k].latency_ms]

\* timings = [lat for _, lat, e in rows if e is None]
Timings(rows) ==
    LET ok == SelectSeq(rows, LAMBDA r : r.error = NoError)
    IN  [k \in 1..Len(ok) |-> ok[k].latency_ms]

RECURSIVE InsertSorted(_, _)
InsertSorted(x, sorted) ==
    IF sorted = <<>> THEN <<x>>
    ELSE IF x < Head(sorted) THEN <<x>> \o sorted
         ELSE <<Head(sorted)>> \o InsertSorted(x, Tail(sorted))

\* sorted(timings)
RECURSIVE Sorted(_)
Sorted(vals) ==
    IF vals = <<>> THEN <<>>
    ELSE InsertSorted(vals[Len(vals)], Sorted(SubSeq(vals, 1, Len(vals) - 1)))

RECURSIVE IntSum(_)
IntSum(vals) ==
    IF vals = <<>> THEN 0 ELSE Head(vals) + IntSum(Tail(vals))

\* statistics.median of a sorted, non-empty list
Median(vals) ==
    LET n == Len(vals)
    IN  IF n % 2 = 1 THEN R(vals[(n + 1) \div 2], 1)
        ELSE R(vals[n \div 2] + vals[n \div 2 + 1], 2)

\* percentile(vals, p) of lines 303-313; vals is indexed from 0 there
Percentile(vals, p) ==
    LET n == Len(vals)
        k == R((n - 1) * p, 100)
        f == ((n - 1) * p) \div 100
        c == IF f + 1 < n - 1 THEN f + 1 ELSE n - 1
    IN  IF f = c THEN R(vals[f + 1], 1)
        ELSE RAdd(RMul(R(vals[f + 1], 1), RSub(R(c, 1), k)),
                  RMul(R(vals[c + 1], 1), RSub(k, R(f, 1))))

\* lines 298-318: the statistics printed, or "no successful calls"
Summary(rows) ==
    LET timings == Timings(rows)
        timings_sorted == Sorted(timings)
    IN  IF timings # <<>>
        THEN [count |-> Len(timings),
              min |-> timings_sorted[1],
              avg |-> R(IntSum(timings), Len(timings)),
              p50 |-> Median(timings_sorted),
              p95 |-> Percentile(timings_sorted, 95),
              max |-> timings_sorted[Len(timings)]]
        ELSE [count |-> 0]

\* lines 298-330: the summary, and the rows written to csv_path if given
\* (a failure to write is caught and printed)
PollSummary ==
    /\ poll.status = "polling"
    /\ poll.i = poll.polls
    /\ \E written \in BOOLEAN :
          poll' = [poll EXCEPT !.status = "done",
                               !.summary = Summary(poll.rows),
                               !.csv = IF poll.csv_path /\ written
                                       THEN poll.rows ELSE <<>>]
    /\ UNCHANGED arbVars
    /\ UNCHANGED <<archive, daily>>

NextPoll ==
    \/ PollMarkets
    \/ PollDetails
    \/ PollSummary

SpecPoll ==
    InitPoll /\ [][NextPoll]_vars

(***************************************************************************)
(* Properties                                                              *)
(***************************************************************************)
YesSide ==
    "YES Kalshi / Away Pinnacle"

NoSide ==
    "NO Kalshi / Home Pinnacle"

\* the loop has evaluated merged[idx] and `trades` holds its candidates
RowEvaluated ==
    /\ idx > 0
    /\ pc \in {"loop", "returned", "printed"}
    /\ result # "dataframe"

\* venue A's fee-inclusive cost of an ask, written out: ask * (1 + 0.003)
FeeInclusiveCost(ask) ==
    RMul(ask, R(1003, 1000))

\* venue B's fair probabilities of a merged row: raw / (home raw + away raw)
FairHome(row) ==
    RDiv(row.home_prob, RAdd(row.home_prob, row.away_prob))

FairAway(row) ==
    RDiv(row.away_prob, RAdd(row.home_prob, row.away_prob))

SideTrades(side) ==
    {i \in 1..Len(trades) : trades[i].side = side}

\* one side of the latest row obeys the single-sided rule
SingleSidedRule(side, cost, fair) ==
    /\ (SideTrades(side) # {}) <=> RLt(cost, fair)
    /\ \A i \in SideTrades(side) :
          /\ trades[i].edge = RSub(fair, cost)
          /\ trades[i].kalshi_price = cost
          /\ trades[i].pinnacle_prob_devig = fair

\* C1: under the single-sided rule a side of a matched event is flagged
\* exactly when Kalshi's fee-inclusive cost of the side is strictly below
\* Pinnacle's devigged probability of the same side, and the reported edge
\* is that probability minus the cost; equal cost and probability: no flag.
C1_SingleSidedFlag ==
    RowEvaluated =>
        /\ Cardinality(SideTrades(YesSide)) <= 1
        /\ Cardinality(SideTrades(NoSide)) <= 1
        /\ SingleSidedRule(YesSide, FeeInclusiveCost(merged[idx].yes_prob),
                           FairAway(merged[idx]))
        /\ SingleSidedRule(NoSide, FeeInclusiveCost(merged[idx].no_prob),
                           FairHome(merged[idx]))

\* a first row whose YES cost equals the fair probability was left unflagged
\* and the second row's YES side is flagged with a positive edge
C1_Witness ==
    /\ RowEvaluated
    /\ idx = 2
    /\ FeeInclusiveCost(merged[1].yes_prob) = FairAway(merged[1])
    /\ \A i \in 1..Len(trade_log) : trade_log[i].event # EventName(merged[1])
    /\ \E i \in SideTrades(YesSide) :
          /\ RLt(Zero, trades[i].edge)
          /\ trades[i].edge = RSub(FairAway(merged[2]),
                                   FeeInclusiveCost(merged[2].yes_prob))

BothSidesFlagged(row) ==
    /\ RLt(FeeInclusiveCost(row.yes_prob), FairAway(row))
    /\ RLt(FeeInclusiveCost(row.no_prob), FairHome(row))

YesEdge(row) ==
    RSub(FairAway(row), FeeInclusiveCost(row.yes_prob))

NoEdge(row) ==
    RSub(FairHome(row), FeeInclusiveCost(row.no_prob))

LogEntries(row) ==
    {i \in 1..Len(trade_log) : trade_log[i].event = EventName(row)}

\* C3: when both sides of an event show a positive edge, the log receives
\* exactly one opportunity for the event and it is the larger-edge side.
C3_BestSideOnly ==
    (RowEvaluated /\ BothSidesFlagged(merged[idx])) =>
        /\ Cardinality(LogEntries(merged[idx])) = 1
        /\ LET t == trade_log[Len(trade_log)]
           IN  /\ t.event = EventName(merged[idx])
               /\ ~RLt(t.edge, YesEdge(merged[idx]))
               /\ ~RLt(t.edge, NoEdge(merged[idx]))
               /\ RLt(NoEdge(merged[idx]), YesEdge(merged[idx])) => t.side = YesSide
               /\ RLt(YesEdge(merged[idx]), NoEdge(merged[idx])) => t.side = NoSide

\* both sides flagged, the second candidate (NO) has the larger edge and is
\* the one logged
C3_Witness ==
    /\ RowEvaluated
    /\ BothSidesFlagged(merged[idx])
    /\ Len(trades) = 2
    /\ RLt(YesEdge(merged[idx]), NoEdge(merged[idx]))
    /\ trade_log[Len(trade_log)].side = NoSide

\* C8: every logged opportunity has stake_amount = stake_fraction * bankroll
\* and expected_profit = stake_amount * edge, with its own reported edge.
C8_StakeAndProfit ==
    \A i \in 1..Len(trade_log) :
        /\ trade_log[i].bet_size = RMul(trade_log[i].kelly_fraction, R(10000, 1))
        /\ trade_log[i].profit = RMul(trade_log[i].bet_size, trade_log[i].edge)
        /\ trade_log[i].edge = RSub(trade_log[i].pinnacle_prob_devig,
                                    trade_log[i].kalshi_price)

\* two events logged, one on each side, with positive stake and profit
C8_Witness ==
    /\ Len(trade_log) = 2
    /\ trade_log[1].side # trade_log[2].side
    /\ \A i \in 1..2 : /\ RLt(Zero, trade_log[i].bet_size)
                       /\ RLt(Zero, trade_log[i].profit)

KellyApplied ==
    /\ call.fn = "kelly_fraction"
    /\ pc # "call"

KellyReturned ==
    /\ KellyApplied
    /\ ~call.err

\* both arguments are probabilities strictly between 0 and 1
ProbabilityInputs ==
    /\ RLt(Zero, call.a)
    /\ RLt(call.a, One)
    /\ RLt(Zero, call.b)
    /\ RLt(call.b, One)

\* classical Kelly on decimal odds b = 1 / p_price:
\* max(0, shrinkage * (b * p_true - 1) / (b - 1))
ClassicalKellyStake(p_true, p_price, shrinkage) ==
    LET b == RDiv(One, p_price)
        kelly == RDiv(RSub(RMul(b, p_true), One), RSub(b, One))
    IN  IF RLt(Zero, RMul(shrinkage, kelly)) THEN RMul(shrinkage, kelly) ELSE Zero

\* C4: Kelly sizing converts the acquisition price (a probability) to decimal
\* odds b = 1/p_price, computes kelly = (b * p_true - 1) / (b - 1) and returns
\* max(0, shrinkage * kelly).
C4_KellyOnDecimalOdds ==
    (KellyApplied /\ ProbabilityInputs) =>
        /\ ~call.err
        /\ call.val = ClassicalKellyStake(call.a, call.b, call.s)

\* C5: the stake fraction returned by Kelly sizing is never negative.
C5_StakeNonNegative ==
    KellyReturned => RLe(Zero, call.val)

\* probabilities with no edge (true probability below the price): a stake
\* was returned and it is not negative
C5_Witness ==
    /\ KellyReturned
    /\ ProbabilityInputs
    /\ RLt(call.a, call.b)
    /\ RLe(Zero, call.val)

\* C6: an acquisition cost of exactly 1.0 yields stake fraction 0 and no
\* division-by-zero error.
C6_DegenerateGuard ==
    (KellyApplied /\ call.b = One) =>
        /\ ~call.err
        /\ call.val = Zero

\* C7: for probabilities in (0,1) and shrinkage in (0,1] the stake fraction
\* is at most 1, so the stake never exceeds the bankroll.
C7_StakeWithinBankroll ==
    (KellyApplied /\ ProbabilityInputs) =>
        /\ ~call.err
        /\ RLe(call.val, One)
        /\ RLe(RMul(call.val, R(10000, 1)), R(10000, 1))

DevigReturned ==
    /\ call.fn = "devig"
    /\ pc # "call"
    /\ ~call.err

PositiveRawInputs ==
    /\ RLt(Zero, call.a)
    /\ RLt(Zero, call.b)

\* C9: for positive raw inputs the two outputs of devig sum to 1.
C9_DevigSumsToOne ==
    (call.fn = "devig" /\ pc # "call" /\ PositiveRawInputs) =>
        /\ ~call.err
        /\ RAdd(call.val, call.val2) = One

\* a raw pair with overround (sum above 1) and unequal sides was normalised
C9_Witness ==
    /\ DevigReturned
    /\ PositiveRawInputs
    /\ RLt(One, RAdd(call.a, call.b))
    /\ call.a # call.b
    /\ RAdd(call.val, call.val2) = One

\* C10: devig preserves the ratio of its inputs:
\* p_home_fair * p_away_raw = p_away_fair * p_home_raw.
C10_DevigKeepsRatio ==
    (call.fn = "devig" /\ pc # "call" /\ PositiveRawInputs) =>
        /\ ~call.err
        /\ RMul(call.val, call.b) = RMul(call.val2, call.a)
        /\ RDiv(call.val, call.val2) = RDiv(call.a, call.b)

\* an unequal raw pair with overround whose outputs differ from the inputs
C10_Witness ==
    /\ DevigReturned
    /\ PositiveRawInputs
    /\ RLt(One, RAdd(call.a, call.b))
    /\ RLt(call.a, call.b)
    /\ call.val # call.a
    /\ RDiv(call.val, call.val2) = RDiv(call.a, call.b)

\* the flag and profit columns of detect_arbitrage have been computed
FlagsComputed ==
    pc \in {"flagged", "printed"}

\* the strict combined rule on one pair of complementary costs, tolerance 0
CombinedRule(flag, profit, cost_a, cost_b) ==
    /\ flag <=> RLt(RAdd(cost_a, cost_b), One)
    /\ (~IsNaN(cost_a) /\ ~IsNaN(cost_b)) =>
          profit = RSub(One, RAdd(cost_a, cost_b))

\* C2: under the strict combined rule an event is flagged exactly when the
\* costs of the two complementary outcomes across the venues sum to less than
\* 1 + t (t = 0 by default), and the profit fraction is 1 minus that sum.
C2_CombinedRule ==
    FlagsComputed =>
        \A i \in 1..Len(merged) :
            /\ CombinedRule(merged[i].arb_away, merged[i].arb_profit_away,
                            merged[i].yes_prob, merged[i].home_prob)
            /\ CombinedRule(merged[i].arb_home, merged[i].arb_profit_home,
                            merged[i].no_prob, merged[i].away_prob)

\* C11: devig leaves a no-vig pair unchanged, devig(0.5, 0.5) = (0.5, 0.5),
\* and applying devig to its own result returns that result again.
C11_DevigNoVigFixpoint ==
    /\ (DevigReturned /\ PositiveRawInputs /\ RAdd(call.a, call.b) = One) =>
          /\ call.val = call.a
          /\ call.val2 = call.b
    /\ (DevigReturned /\ call.a = R(1, 2) /\ call.b = R(1, 2)) =>
          /\ call.val = R(1, 2)
          /\ call.val2 = R(1, 2)
    /\ (call.fn = "devig" /\ pc = "reapplied") =>
          /\ call.val = call.a
          /\ call.val2 = call.b

\* the second application, on an unequal positive pair, changed nothing
C11_Witness ==
    /\ call.fn = "devig"
    /\ pc = "reapplied"
    /\ PositiveRawInputs
    /\ call.a # call.b
    /\ call.val = call.a
    /\ call.val2 = call.b

\* a raw input is not positive, or the sum of the raw inputs is not positive
InvalidRawInputs ==
    \/ RLe(call.a, Zero)
    \/ RLe(call.b, Zero)
    \/ RLe(RAdd(call.a, call.b), Zero)

\* C12: devig fails, returning no probability pair, whenever a raw input is
\* <= 0 or the sum r of the raw inputs is <= 0.
C12_DevigRejectsInvalid ==
    (call.fn = "devig" /\ pc # "call" /\ InvalidRawInputs) =>
        /\ call.err
        /\ pc = "raised"

\* simulate_trade has converted the money lines and joined the frames
FramesMerged ==
    /\ pc \in {"loop", "returned", "printed"}
    /\ result # "dataframe"

\* C13: decimal moneyline odds become the implied probability 1 / odds,
\* independently for the home and the away price; odds 2.0 give 0.5.
C13_ImpliedProbability ==
    FramesMerged =>
        \A i \in 1..Len(merged) :
            /\ RMul(merged[i].home_prob, merged[i].moneyline_home) = One
            /\ RMul(merged[i].away_prob, merged[i].moneyline_away) = One
            /\ merged[i].moneyline_home = R(2, 1) => merged[i].home_prob = R(1, 2)
            /\ merged[i].moneyline_away = R(2, 1) => merged[i].away_prob = R(1, 2)

\* a joined row with away odds 2.0 and different home odds: away 0.5
C13_Witness ==
    /\ FramesMerged
    /\ \E i \in 1..Len(merged) :
          /\ merged[i].moneyline_away = R(2, 1)
          /\ merged[i].moneyline_home # merged[i].moneyline_away
          /\ merged[i].away_prob = R(1, 2)
          /\ RMul(merged[i].home_prob, merged[i].moneyline_home) = One

\* a full-game Pinnacle row whose two prices are present
PricedGameRow(p) ==
    /\ p.period = "Game"
    /\ ~IsNaN(p.moneyline_home)
    /\ ~IsNaN(p.moneyline_away)

\* C14: a decimal price <= 1 fails the conversion: no implied probability is
\* produced from it and no event is evaluated with it.
C14_InvalidOddsRejected ==
    FramesMerged =>
        /\ \A i \in 1..Len(pinnacle_df) :
              PricedGameRow(pinnacle_df[i]) =>
                  /\ RLt(One, pinnacle_df[i].moneyline_home)
                  /\ RLt(One, pinnacle_df[i].moneyline_away)
        /\ \A i \in 1..Len(merged) :
              /\ RLt(One, merged[i].moneyline_home)
              /\ RLt(One, merged[i].moneyline_away)

FeeApplied ==
    /\ call.fn = "effective_cost"
    /\ pc = "returned"

\* C15: the effective cost of a direct ask is ask * (1 + fee_rate), at both
\* places where a fee is applied, and for a fixed ask > 0 it increases
\* strictly with the fee rate.
C15_FeeInflation ==
    FeeApplied =>
        /\ call.val = RAdd(call.a, RMul(call.a, call.b))
        /\ call.val2 = RAdd(call.a, RMul(call.a, call.s))
        /\ (RLt(Zero, call.a) /\ RLt(call.b, call.s)) => RLt(call.val, call.val2)
        /\ call.b = R(3, 1000) => call.val = KalshiCost(call.a)
        /\ call.b = R(35, 1000) => call.val = DeviationCost(call.a)

\* one ask under the fee of simulate_trade and the larger fee of the
\* deviation check: the second cost is the larger
C15_Witness ==
    /\ FeeApplied
    /\ RLt(Zero, call.a)
    /\ call.b = R(3, 1000)
    /\ call.s = R(35, 1000)
    /\ RLt(call.a, call.val)
    /\ RLt(call.val, call.val2)

\* the single-sided rule fires for at least one side of the row
RuleFires(row) ==
    \/ RLt(FeeInclusiveCost(row.yes_prob), FairAway(row))
    \/ RLt(FeeInclusiveCost(row.no_prob), FairHome(row))

\* simulate_trade has returned its (trades, metrics) pair
PairReturned ==
    /\ pc \in {"returned", "printed"}
    /\ result = "pair"

\* C16: the output holds one opportunity for each matched event on which the
\* rule fires for at least one side and none for an event on which it fires
\* for neither side.
C16_OnePerFiringEvent ==
    PairReturned =>
        /\ \A i \in 1..Len(merged) :
              Cardinality(LogEntries(merged[i])) =
                  IF RuleFires(merged[i]) THEN 1 ELSE 0
        /\ \A j \in 1..Len(trade_log) :
              \E i \in 1..Len(merged) : trade_log[j].event = EventName(merged[i])

\* two matched events, the rule fires on one only (on its NO side), and the
\* output has that single opportunity
C16_Witness ==
    /\ PairReturned
    /\ Len(merged) = 2
    /\ \E i \in 1..2 : ~RuleFires(merged[i])
    /\ \E i \in 1..2 :
          /\ RuleFires(merged[i])
          /\ ~RLt(FeeInclusiveCost(merged[i].yes_prob), FairAway(merged[i]))
    /\ Len(trade_log) = 1

\* the event key of a fetched Kalshi row
KalshiKey(k) ==
    [home |-> normalize_team(k.title.home), away |-> normalize_team(k.title.away)]

\* a full-game Pinnacle row with both prices carries the key
QuotedByPinnacle(key) ==
    \E j \in 1..Len(pinnacle_df) :
        /\ PricedGameRow(pinnacle_df[j])
        /\ pinnacle_df[j].home = key.home
        /\ pinnacle_df[j].away = key.away

QuotedByKalshi(key) ==
    \E i \in 1..Len(kalshi_df) : KalshiKey(kalshi_df[i]) = key

KalshiKeys ==
    {KalshiKey(kalshi_df[i]) : i \in 1..Len(kalshi_df)}

PinnacleKeys ==
    {[home |-> pinnacle_df[j].home, away |-> pinnacle_df[j].away] :
        j \in 1..Len(pinnacle_df)}

\* the keys that lack a Kalshi market or a priced full-game Pinnacle row
UnmatchedKeys ==
    (KalshiKeys \cup PinnacleKeys)
        \ {key \in KalshiKeys : QuotedByPinnacle(key)}

\* C17 as claimed: an evaluation in which an event has quotes from fewer
\* than two venues fails with an error surfaced to the caller.
C17_UnmatchedEventRaises ==
    (pc # "start" /\ UnmatchedKeys # {}) => pc = "raised"

\* C17 as amended: when both venues return rows, an event quoted by only one
\* of them is dropped by the inner join: it is never evaluated, no
\* opportunity is reported for it, and no error is raised.
C17_UnmatchedDropped ==
    FramesMerged =>
        \A key \in UnmatchedKeys :
            /\ pc # "raised"
            /\ \A i \in 1..Len(merged) :
                  ~(merged[i].home = key.home /\ merged[i].away = key.away)
            /\ \A j \in 1..Len(trade_log) :
                  trade_log[j].event # <<key.away, "at", key.home>>

\* Kalshi quotes an event that Pinnacle does not; the run ended normally
\* with an opportunity for the other, matched event only
C17_Witness ==
    /\ PairReturned
    /\ \E key \in UnmatchedKeys : QuotedByKalshi(key)
    /\ Len(merged) = 1
    /\ Len(trade_log) = 1

\* simulate_trade has come back, or its caller has handled the result
EvaluationOver ==
    pc \in {"returned", "printed", "unpack_error"}

\* C18: finding no opportunity is a normal outcome: with no quotes from a
\* venue, or with quotes and no rule firing, the evaluation returns the same
\* shape as otherwise (trade list and metrics) and its caller raises no error.
C18_NoOpportunityIsNormal ==
    (EvaluationOver /\ trade_log = <<>>) =>
        /\ result = "pair"
        /\ pc # "unpack_error"

\* C20: the acquisition price given to Kelly sizing is the fee-inclusive cost
\* with which the opportunity was detected and its edge computed.
C20_KellyOnFeeInclusiveCost ==
    RowEvaluated =>
        \A i \in 1..Len(trades) :
            trades[i].kelly_fraction =
                kelly_fraction(trades[i].pinnacle_prob_devig,
                               trades[i].kalshi_price, fractional_kelly).val

\* the post-fee deviation of a side: fee-inclusive Kalshi cost minus the
\* Pinnacle probability of the same side
PostFeeDeviation(cost, prob) ==
    RSub(cost, prob)

BothDeviationSidesFlagged(row) ==
    /\ RLt(row.no_prob, row.home_prob)
    /\ RLt(row.yes_prob, row.away_prob)

\* C21: in detect_profitable_arbs, when both sides of an event are flagged,
\* the single deviation reported for the event is that of the side with the
\* larger edge, i.e. the more negative post-fee deviation.
C21_LargerEdgeReported ==
    FlagsComputed =>
        \A i \in 1..Len(merged) :
            BothDeviationSidesFlagged(merged[i]) =>
                /\ ~RLt(PostFeeDeviation(merged[i].no_prob, merged[i].home_prob),
                        merged[i].arb_deviation)
                /\ ~RLt(PostFeeDeviation(merged[i].yes_prob, merged[i].away_prob),
                        merged[i].arb_deviation)

FlaggedRows ==
    SelectSeq(merged, LAMBDA r : \/ RLt(r.no_prob, r.home_prob)
                                 \/ RLt(r.yes_prob, r.away_prob))

\* C24: in detect_profitable_arbs has_arb holds for a merged row if and only
\* if its arb_deviation is below 0, so the rows reported as profitable are
\* exactly the flagged rows: the filter arb_deviation < 0 removes none.
C24_ProfitableIsFlagged ==
    /\ FlagsComputed =>
          \A i \in 1..Len(merged) :
              merged[i].has_arb <=> RLt(merged[i].arb_deviation, Zero)
    /\ pc = "printed" =>
          /\ profitable = FlaggedRows
          /\ Len(arb_opps) = Len(FlaggedRows)
          /\ \A i \in 1..Len(FlaggedRows) :
                \E j \in 1..Len(arb_opps) : arb_opps[j] = FlaggedRows[i]

\* two joined events, one flagged on its home side only and one not flagged:
\* the report holds the flagged one
C24_Witness ==
    /\ pc = "printed"
    /\ Len(merged) = 2
    /\ \E i \in 1..2 : /\ merged[i].arb_home
                       /\ ~merged[i].arb_away
                       /\ profitable = <<merged[i]>>
    /\ \E i \in 1..2 : /\ ~merged[i].has_arb
                       /\ merged[i].arb_deviation = Zero

RowKey(row) ==
    [home |-> row.home, away |-> row.away]

\* the first fetched Kalshi row of an event key
FirstKalshiRow(key) ==
    kalshi_df[CHOOSE i \in 1..Len(kalshi_df) :
                  /\ KalshiKey(kalshi_df[i]) = key
                  /\ \A h \in 1..(i - 1) : KalshiKey(kalshi_df[h]) # key]

\* the first fetched Pinnacle row of an event key that has both prices
FirstPinnacleRow(key) ==
    pinnacle_df[CHOOSE j \in 1..Len(pinnacle_df) :
                    /\ PricedGameRow(pinnacle_df[j])
                    /\ RowKey(pinnacle_df[j]) = key
                    /\ \A h \in 1..(j - 1) :
                          ~(PricedGameRow(pinnacle_df[h])
                            /\ RowKey(pinnacle_df[h]) = key)]

\* the number of rows a venue supplied for the key
KalshiRowsOf(key) ==
    Cardinality({i \in 1..Len(kalshi_df) : KalshiKey(kalshi_df[i]) = key})

PinnacleRowsOf(key) ==
    Cardinality({j \in 1..Len(pinnacle_df) :
                    PricedGameRow(pinnacle_df[j]) /\ RowKey(pinnacle_df[j]) = key})

\* C22: each matched event key (home, away) is evaluated exactly once per
\* snapshot even when a venue supplies several rows for it: only the first
\* joined row is used, later rows of the key do not influence the result, and
\* the trade log never holds two entries for the same event.
C22_OneEvaluationPerKey ==
    FramesMerged =>
        /\ \A i, j \in 1..Len(merged) :
              RowKey(merged[i]) = RowKey(merged[j]) => i = j
        /\ \A key \in KalshiKeys :
              QuotedByPinnacle(key) =>
                  \E i \in 1..Len(merged) :
                      /\ RowKey(merged[i]) = key
                      /\ merged[i].yes_prob = FirstKalshiRow(key).yes_ask
                      /\ merged[i].no_prob = FirstKalshiRow(key).no_ask
                      /\ merged[i].moneyline_home =
                             FirstPinnacleRow(key).moneyline_home
                      /\ merged[i].moneyline_away =
                             FirstPinnacleRow(key).moneyline_away
        /\ \A i, j \in 1..Len(trade_log) :
              trade_log[i].event = trade_log[j].event => i = j
        /\ Len(trade_log) <= idx
        /\ idx <= Len(merged)

\* both venues supplied two different rows for one event; one joined row
\* was evaluated, once, and it fires no rule: nothing is logged
C22_Witness ==
    /\ PairReturned
    /\ Len(merged) = 1
    /\ KalshiRowsOf(RowKey(merged[1])) = 2
    /\ PinnacleRowsOf(RowKey(merged[1])) = 2
    /\ kalshi_df[1] # kalshi_df[2]
    /\ pinnacle_df[1].moneyline_home # pinnacle_df[2].moneyline_home
    /\ idx = 1
    /\ trade_log = <<>>

\* the Kalshi book behind a merged row is uncrossed: yes_bid <= yes_ask
Uncrossed(row) ==
    RLe(FirstKalshiRow(RowKey(row)).yes_bid, FirstKalshiRow(RowKey(row)).yes_ask)

\* C23: with the Kalshi NO ask derived as 1 - yes_bid, whenever the Kalshi
\* book is uncrossed (yes_bid <= yes_ask) and the fee is >= 0, the YES/away
\* and the NO/home side of one event are never both flagged against the
\* devigged Pinnacle pair: at most one candidate trade exists per event.
C23_UncrossedOneCandidate ==
    (RowEvaluated /\ Uncrossed(merged[idx])) =>
        /\ merged[idx].no_prob = RSub(One, FirstKalshiRow(RowKey(merged[idx])).yes_bid)
        /\ RLe(Zero, kalshi_fee)
        /\ ~BothSidesFlagged(merged[idx])
        /\ Len(trades) <= 1

\* an uncrossed book with a spread, flagged on its NO side only and logged
C23_Witness ==
    /\ RowEvaluated
    /\ Uncrossed(merged[idx])
    /\ RLt(RSub(One, merged[idx].no_prob), merged[idx].yes_prob)
    /\ Len(trades) = 1
    /\ trades[1].side = NoSide
    /\ trade_log # <<>>
    /\ trade_log[Len(trade_log)] = trades[1]

\* C25: every trade in the log returned by simulate_trade has edge > 0,
\* kelly_fraction >= 0, bet_size >= 0 and profit >= 0, so total_PnL is never
\* negative and average_edge is positive whenever the log is non-empty.
C25_LogNeverLoses ==
    /\ \A i \in 1..Len(trade_log) :
          /\ RLt(Zero, trade_log[i].edge)
          /\ RLe(Zero, trade_log[i].kelly_fraction)
          /\ RLe(Zero, trade_log[i].bet_size)
          /\ RLe(Zero, trade_log[i].profit)
    /\ PairReturned =>
          /\ RLe(Zero, metrics.total_PnL)
          /\ trade_log # <<>> => RLt(Zero, metrics.average_edge)
          /\ trade_log = <<>> => metrics.average_edge = Zero

\* a returned log of two trades with different edges and a positive total
C25_Witness ==
    /\ PairReturned
    /\ Len(trade_log) = 2
    /\ trade_log[1].edge # trade_log[2].edge
    /\ RLt(Zero, metrics.total_PnL)
    /\ RLt(Zero, metrics.average_edge)
    /\ RLt(metrics.average_edge, One)

MarketFetched ==
    /\ call.fn = "fetch_kalshi_nfl_df"
    /\ pc = "returned"

Present(x) ==
    ~IsNaN(x)

\* a price is absent or lies in the 0-1 range
AbsentOrInUnit(x) ==
    Present(x) => (RLe(Zero, x) /\ RLe(x, One))

\* C26: for every Kalshi market row each price that is present lies in the
\* 0-1 range; no_ask is present exactly when yes_bid is, and then
\* yes_bid + no_ask = 1; no_bid is present exactly when yes_ask is, and then
\* yes_ask + no_bid = 1; a quote of 0 cents is absent, not the value 0.
C26_KalshiRowPrices ==
    MarketFetched =>
        /\ Len(kalshi_df) = 1
        /\ \A i \in 1..Len(kalshi_df) :
              /\ AbsentOrInUnit(kalshi_df[i].yes_bid)
              /\ AbsentOrInUnit(kalshi_df[i].yes_ask)
              /\ AbsentOrInUnit(kalshi_df[i].no_bid)
              /\ AbsentOrInUnit(kalshi_df[i].no_ask)
              /\ Present(kalshi_df[i].no_ask) <=> Present(kalshi_df[i].yes_bid)
              /\ Present(kalshi_df[i].no_bid) <=> Present(kalshi_df[i].yes_ask)
              /\ Present(kalshi_df[i].yes_bid) =>
                    RAdd(kalshi_df[i].yes_bid, kalshi_df[i].no_ask) = One
              /\ Present(kalshi_df[i].yes_ask) =>
                    RAdd(kalshi_df[i].yes_ask, kalshi_df[i].no_bid) = One
              /\ Present(kalshi_df[i].yes_bid) <=> call.a # Zero
              /\ Present(kalshi_df[i].yes_ask) <=> call.b # Zero
              /\ Present(kalshi_df[i].yes_bid) =>
                    RMul(kalshi_df[i].yes_bid, R(100, 1)) = call.a
              /\ Present(kalshi_df[i].yes_ask) =>
                    RMul(kalshi_df[i].yes_ask, R(100, 1)) = call.b

\* a market quoted 0 / 30 cents: yes_bid and no_ask absent, no_bid 0.70
C26_Witness ==
    /\ MarketFetched
    /\ call.a = Zero
    /\ call.b = R(30, 1)
    /\ ~Present(kalshi_df[1].yes_bid)
    /\ ~Present(kalshi_df[1].no_ask)
    /\ kalshi_df[1].yes_ask = R(3, 10)
    /\ kalshi_df[1].no_bid = R(7, 10)

Crawling ==
    archive.crawler # "none"

\* the largest number of pages a crawl may request: its max_pages, and the
\* largest max_pages of the model where the crawl takes no such parameter
PageLimit ==
    IF archive.crawler = "ui" THEN archive.max_pages ELSE MaxPagesParam

\* C27: archive pagination terminates for every provider behaviour: pages
\* are requested in increasing order from 1 with none skipped, the crawl
\* stops at the first empty or malformed page, and the number of page
\* requests is bounded even when the provider never returns an empty page.
C27_PaginationBounded ==
    Crawling =>
        /\ \A i \in 1..Len(archive.pages) : archive.pages[i] = i
        /\ Len(archive.replies) = Len(archive.pages)
        /\ \A i \in 1..Len(archive.replies) :
              archive.replies[i] \in {"empty", "malformed"} =>
                  /\ i = Len(archive.replies)
                  /\ archive.status = "done"
        /\ Len(archive.pages) <= PageLimit
        /\ archive.requests <= 2 * PageLimit

DailyStarted ==
    daily.job # "none"

\* the files that were in out_dir when the run began are still there, with
\* their content
OldFilesKept ==
    daily.files_at_start \subseteq daily.files

\* C28 as claimed: the daily exporter never overwrites an existing event CSV
\* and never creates an empty one, and a second run over the same events
\* exports nothing and counts 0 exported.
C28_SecondRunExportsNothing ==
    DailyStarted =>
        /\ OldFilesKept
        /\ \A f \in daily.files : f.rows > 0
        /\ daily.run = 2 =>
              /\ daily.total = 0
              /\ daily.files = daily.files_at_start

\* C28 as amended: no existing CSV is overwritten and no empty one created;
\* an export returns None and changes no file when the target exists or the
\* event has no ticks; a second run over the same events exports nothing
\* when the first run fetched the details of every event it tried, and
\* otherwise at most the events whose fetch failed in the first run.
C28_ExportKeepsFiles ==
    DailyStarted =>
        /\ OldFilesKept
        /\ \A f \in daily.files : f.rows > 0
        /\ \A f, g \in daily.files : f.name = g.name => f = g
        /\ Cardinality(daily.files) = Cardinality(daily.files_at_start) + daily.total
        /\ \A k \in 1..Len(daily.fetches) :
              LET ev == daily.fetches[k]
              IN  /\ (ev.ticks = 0 /\ daily.outcomes[k] # "error") =>
                         daily.outcomes[k] = "skip"
                  /\ (FileName(ev) \in FileNames(daily.files_at_start)
                      /\ daily.outcomes[k] # "error") =>
                         daily.outcomes[k] = "skip"
                  /\ daily.outcomes[k] = "ok" =>
                         \E f \in daily.files : /\ f.name = FileName(ev)
                                                /\ f.event_id = ev.event_id
                                                /\ f.rows = ev.ticks
        /\ daily.run = 2 =>
              /\ daily.total <= daily.earlier_errors
              /\ daily.earlier_errors = 0 => daily.files = daily.files_at_start

\* the second run has ended after a first run without failed fetches that
\* had exported one event next to an older CSV: 0 exported, files unchanged
C28_Witness ==
    /\ daily.job = "done"
    /\ daily.run = 2
    /\ daily.earlier_errors = 0
    /\ OldFile \in daily.files
    /\ Cardinality(daily.files) = 2
    /\ Len(daily.fetches) = 2
    /\ daily.total = 0

\* two list entries carry the same (starts, home, away) key
SameDailyKey(e1, e2) ==
    /\ e1.starts = e2.starts
    /\ Normalize(e1.home) = Normalize(e2.home)
    /\ Normalize(e1.away) = Normalize(e2.away)

\* the events of the list the loop has already passed
PassedEvents ==
    {daily.events[k] : k \in 1..daily.i}

\* C29: within one job of run_daily the event details are fetched at most
\* once per (starts, home, away) key; a later event with a key already seen,
\* an event outside the configured leagues, an event not starting on the
\* target date and a test fixture trigger neither a details fetch nor an
\* export.
C29_OneFetchPerKey ==
    DailyStarted =>
        /\ \A j, k \in 1..Len(daily.fetches) :
              SameDailyKey(daily.fetches[j], daily.fetches[k]) => j = k
        /\ \A k \in 1..Len(daily.fetches) :
              LET ev == daily.fetches[k]
              IN  /\ ev \in PassedEvents
                  /\ daily.leagues # {} => ev.league_id \in daily.leagues
                  /\ ev.starts.date = "2025-08-22"
                  /\ Normalize(ev.home) # "test 1"
                  /\ Normalize(ev.away) # "test 1"
        /\ Len(daily.outcomes) = Len(daily.fetches)
        /\ daily.total <= Len(daily.fetches)
        /\ \A f \in daily.files \ daily.files_at_start :
              \E k \in 1..Len(daily.fetches) :
                  /\ daily.fetches[k].event_id = f.event_id
                  /\ daily.outcomes[k] = "ok"

\* the list held the same game twice, the names written differently: the
\* details were fetched for the first entry only
C29_Witness ==
    /\ daily.job = "done"
    /\ daily.run = 1
    /\ Len(daily.events) = 2
    /\ daily.events[1] # daily.events[2]
    /\ SameDailyKey(daily.events[1], daily.events[2])
    /\ daily.fetches = <<daily.events[1]>>
    /\ daily.total = 1

Polling ==
    poll.measure # "none"

\* the rows of the attempts that returned without error
SuccessfulRows ==
    {k \in 1..Len(poll.rows) : poll.rows[k].error = "None"}

\* C30: measure_polling performs exactly `polls` fetch attempts and records
\* exactly one (iteration, latency, error) row per attempt: an attempt that
\* raises is recorded with its error and does not stop the later attempts,
\* the pause occurs only before a further attempt (never after the last),
\* and the summary statistics are computed over the successful attempts.
C30_OneRowPerAttempt ==
    Polling =>
        /\ poll.i <= poll.polls
        /\ Len(poll.rows) = poll.i
        /\ \A k \in 1..Len(poll.rows) : poll.rows[k].iteration = k
        /\ Len(poll.sleeps) = IF poll.i < poll.polls THEN poll.i
                              ELSE IF poll.polls = 0 THEN 0
                              ELSE poll.polls - 1
        /\ \A k \in 1..Len(poll.sleeps) : poll.sleeps[k] = k
        /\ poll.status = "done" =>
              /\ Len(poll.rows) = poll.polls
              /\ poll.summary.count = Cardinality(SuccessfulRows)
              /\ SuccessfulRows # {} =>
                    /\ \E k \in SuccessfulRows :
                          poll.rows[k].latency_ms = poll.summary.min
                    /\ \E k \in SuccessfulRows :
                          poll.rows[k].latency_ms = poll.summary.max
                    /\ \A k \in SuccessfulRows :
                          /\ poll.summary.min <= poll.rows[k].latency_ms
                          /\ poll.rows[k].latency_ms <= poll.summary.max
                    /\ RLe(R(poll.summary.min, 1), poll.summary.avg)
                    /\ RLe(poll.summary.avg, R(poll.summary.max, 1))
                    /\ RLe(R(poll.summary.min, 1), poll.summary.p50)
                    /\ RLe(poll.summary.p50, R(poll.summary.max, 1))

\* three polls, the second failed with the largest latency: three rows, two
\* pauses, and a summary over the two successful attempts
C30_Witness ==
    /\ poll.status = "done"
    /\ poll.polls = 3
    /\ Len(poll.rows) = 3
    /\ poll.rows[1].error = "None"
    /\ poll.rows[2].error # "None"
    /\ poll.rows[3].error = "None"
    /\ poll.rows[2].latency_ms = 40
    /\ poll.rows[1].latency_ms = 10
    /\ poll.rows[3].latency_ms = 20
    /\ poll.sleeps = <<1, 2>>
    /\ poll.summary.count = 2
    /\ poll.summary.max = 20
    /\ poll.summary.avg = R(15, 1)

=============================================================================
